---- MODULE Spec2Model ----
(***************************************************************************)
(* A model of couchdb::connection (src/Couch/connection.h): the            *)
(* authentication state machine (login / logout / get_login_info) and the  *)
(* database lifecycle operations (get_db, create_db, remove_db,            *)
(* ensure_db_exists, ensure_db_is_deleted) over a transport (the           *)
(* communication object) and a server.                                     *)
(*                                                                         *)
(* Every transport request is one step: the request is issued, the server  *)
(* handles it and the reply (a returned value or a thrown couchdb::error)  *)
(* comes back.  A handler that issues two requests (login under basic,     *)
(* ensure_db_exists) is two steps joined by pc.                            *)
(***************************************************************************)
EXTENDS Integers, Sequences, FiniteSets, TLC

(* ------------------------------ bounds -------------------------------- *)

\* how many database names the callers use
NumDbNames == 2

AllNames == <<"alpha", "a/b", "_users", "beta">>
DbNames == {AllNames[i] : i \in 1..NumDbNames}

\* the messages an error carries; "" is no message
Msgs == {"", "the reason"}

\* how many items an array of the server holds at most
MaxItems == 2

\* how long the version strings of the server are at most
MaxVersionLen == 2

\* the connection objects; each owns its transport
Sessions == {1, 2}

(* --------------------------- auth_type -------------------------------- *)

auth_none == "auth_none"
auth_basic == "auth_basic"
auth_cookie == "auth_cookie"
AuthTypes == {auth_none, auth_basic, auth_cookie}

(* ----------------------------- error ---------------------------------- *)

bad_response == "bad_response"
database_unavailable == "database_unavailable"
database_not_creatable == "database_not_creatable"
database_not_deletable == "database_not_deletable"
content_not_found == "content_not_found"
communication_error == "communication_error"
ErrorTypes == {bad_response, database_unavailable, database_not_creatable,
               database_not_deletable, content_not_found, communication_error}

\* error(type, reason); error(type) carries no message
error(type, msg) == [type |-> type, msg |-> msg]
NoError == [type |-> "none", msg |-> ""]
\* the errors a transport call raises
RaisedTypes == {content_not_found, database_not_deletable, communication_error}
Errors == {error(ty, m) : ty \in RaisedTypes, m \in Msgs}

(* --------------------------- json::value ------------------------------ *)

JNull == [type |-> "null"]
JBool(b) == [type |-> "bool", b |-> b]
JString(str) == [type |-> "string", s |-> str]
JArray == [type |-> "array"]
JAbsent == [type |-> "absent"]
\* an object holding the members (among error, reason, ok) that are given
JObject(e, r, o) ==
    LET given == [error |-> e, reason |-> r, ok |-> o]
        keys == {k \in {"error", "reason", "ok"} : given[k] # JAbsent}
    IN [type |-> "object", members |-> [k \in keys |-> given[k]]]

is_object(v) == v.type = "object"
is_member(v, k) == k \in DOMAIN v.members
\* v[k]: the member, or null when the object has no such member
member(v, k) == IF is_member(v, k) THEN v.members[k] ELSE JNull
\* get_string / get_bool: the held value, or the default for another type
get_string(v) == IF v.type = "string" THEN v.s ELSE ""
get_bool(v) == IF v.type = "bool" THEN v.b ELSE FALSE

OkObject == JObject(JAbsent, JAbsent, JBool(TRUE))
\* the objects a server answers a PUT or DELETE with, name being its error name
JsonObjects(name) ==
    {JObject(e, r, o) :
        e \in {JAbsent, JString(name)},
        r \in {JAbsent} \cup {JString(m) : m \in Msgs \ {""}},
        o \in {JAbsent, JBool(TRUE), JBool(FALSE)}}
JsonValues(name) == JsonObjects(name) \cup {JNull, JArray}

(* --------------------------- std::string ------------------------------ *)

\* Strings the handlers look into are sequences of characters.
npos == -1
\* str.find(sub): where sub first occurs in str, counted from 0, or npos
find(str, sub) ==
    LET at == {i \in 0..(Len(str) - Len(sub)) :
                  SubSeq(str, i + 1, i + Len(sub)) = sub}
    IN IF at = {} THEN npos ELSE CHOOSE i \in at : \A j \in at : i <= j
\* str.erase(0, n)
erase_front(str, n) == SubSeq(str, n + 1, Len(str))
\* str.erase(pos): everything from pos on goes
erase_from(str, pos) == SubSeq(str, 1, pos)

\* the sequences over S of at most n items
SeqsUpTo(S, n) == UNION {[1..k -> S] : k \in 0..n}

is_array(v) == v.type = "array"
\* get_string of a value whose string is held as characters
get_text(v) == IF v.type = "string" THEN v.s ELSE <<>>
\* an array of strings
JArrayOf(strs) == [type |-> "array", items |-> [i \in 1..Len(strs) |-> JString(strs[i])]]
\* an object with the one member k
JObjectOf(k, v) == [type |-> "object", members |-> [x \in {k} |-> v]]
\* an array of rows, each an object with the id given
JRows(ids) ==
    [type |-> "array",
     items |-> [i \in 1..Len(ids) |-> JObjectOf("id", JString(ids[i]))]]
\* the get_string() of every item of an array, in order
item_strings(v) == [i \in 1..Len(v.items) |-> get_text(v.items[i])]

(* ---------------------------- transport ------------------------------- *)

\* what a transport call hands back: a returned value or a thrown error
Returned(v) == [thrown |-> FALSE, err |-> NoError, val |-> v]
Thrown(e) == [thrown |-> TRUE, err |-> e, val |-> JNull]

\* get_data on a database path: any thrown error, any JSON value
DataReplies(name) ==
    {Thrown(e) : e \in Errors} \cup {Returned(v) : v \in JsonValues(name)}
PutData == DataReplies("file_exists")
DeleteData == DataReplies("not_found")
\* get_raw_data (HEAD): raises on a non-success status, else returns the body
RawReplies == {Thrown(e) : e \in Errors} \cup {Returned(JNull)}
\* get_data on /_session: raises, or returns the server's object
SessionReplies == {Thrown(e) : e \in Errors} \cup {Returned(OkObject)}

url_encode(db) == IF db = "a/b" THEN "a%2Fb" ELSE db
DbPath(db) == "/" \o url_encode(db)
SessionPath == "/_session"

(* ------------------------------ state --------------------------------- *)

VARIABLES
    authType,    \* comm->get_auth_type() of each session's transport
    server_dbs,  \* the databases the server holds
    pc,          \* where each session's current call stands
    cur,         \* each session's call in progress, or its last finished call
    prev,        \* the database the call before cur ensured, or NoDb
    couchDBVersion,  \* the version string each connection holds
    couchdb_major    \* the major version each connection holds

\* the version cache of the connections
cache == <<couchDBVersion, couchdb_major>>

vars == <<authType, server_dbs, pc, cur, prev, couchDBVersion, couchdb_major>>

\* what a call gave its caller
Pending == [kind |-> "pending", db |-> "", err |-> NoError]
Self == [kind |-> "self", db |-> "", err |-> NoError]
Database(db) == [kind |-> "database", db |-> db, err |-> NoError]
Json == [kind |-> "json", db |-> "", err |-> NoError]
Null == [kind |-> "null", db |-> "", err |-> NoError]
Throw(e) == [kind |-> "error", db |-> "", err |-> e]
\* the call returned a value, held in ret
Value == [kind |-> "value", db |-> "", err |-> NoError]
\* a cluster_connection, a node_connection made with the name in ret, and the
\* node *cluster_connection(...).begin()
ClusterConnection == [kind |-> "cluster", db |-> "", err |-> NoError]
NodeConnection == [kind |-> "node", db |-> "", err |-> NoError]
FirstNode == [kind |-> "first_node", db |-> "", err |-> NoError]

NoCall == [op |-> "none", db |-> "", t |-> auth_none, requests |-> <<>>,
           sets |-> 0, outcome |-> Pending, ret |-> <<>>]
\* a call that begins now: t is the auth type it starts under
NewCall(s, op, db) == [op |-> op, db |-> db, t |-> authType[s],
                       requests |-> <<>>, sets |-> 0, outcome |-> Pending,
                       ret |-> <<>>]

Faithful(c) == \A i \in 1..Len(c.requests) : c.requests[i].faithful
Methods(c) == [i \in 1..Len(c.requests) |-> c.requests[i].method]
\* the database of c when c is an ensure_db_exists call that every reply
\* answered faithfully, else NoDb
NoDb == ""
Summary(c) == IF c.op = "ensure_db_exists" /\ Faithful(c) THEN c.db ELSE NoDb

\* the call record after one more request went out under auth type a
Issue(c, method, path, a, reply, faithful) ==
    [c EXCEPT !.requests = Append(@, [method |-> method, path |-> path,
                                      auth |-> a, reply |-> reply,
                                      faithful |-> faithful])]
\* the call record after n more set_auth_type calls
Sets(c, n) == [c EXCEPT !.sets = @ + n]

\* the call of session s ends with outcome o
Finish(s, c, o) ==
    /\ cur' = [cur EXCEPT ![s] = [c EXCEPT !.outcome = o]]
    /\ pc' = [pc EXCEPT ![s] = "idle"]
\* what a handler comes to: its outcome and, for kind "value", the value
Result(o, v) == [outcome |-> o, ret |-> v]
Fails(e) == Result(Throw(e), <<>>)
Returns(v) == Result(Value, v)
\* the call of session s ends as res says
Ends(s, c, res) ==
    /\ cur' = [cur EXCEPT ![s] = [c EXCEPT !.outcome = res.outcome,
                                          !.ret = res.ret]]
    /\ pc' = [pc EXCEPT ![s] = "idle"]
\* the call of session s goes on at label l
Goto(s, c, l) ==
    /\ cur' = [cur EXCEPT ![s] = c]
    /\ pc' = [pc EXCEPT ![s] = l]
\* a call begins: the call before it becomes prev
Begin(s) ==
    /\ pc[s] = "idle"
    /\ prev' = [prev EXCEPT ![s] = Summary(cur[s])]

\* the connections as constructed, the version cache apart: couchDBVersion
\* is the empty string, couchdb_major has no initializer
Constructed ==
    /\ authType \in [Sessions -> AuthTypes]
    /\ \A s \in Sessions \ {1} : authType[s] = auth_none
    /\ server_dbs \in SUBSET DbNames
    /\ pc = [s \in Sessions |-> "idle"]
    /\ cur = [s \in Sessions |-> NoCall]
    /\ prev = [s \in Sessions |-> Summary(NoCall)]
    /\ couchDBVersion = [s \in Sessions |-> <<>>]

\* what the int without initializer may hold
Indeterminate == {0 - 7, 7}

\* Under Spec no operation reads or writes couchdb_major: one of its
\* indeterminate values stands for all
Init ==
    /\ Constructed
    /\ couchdb_major = [s \in Sessions |-> 7]

(* ----------------- set_auth_type (connection.h:246) ------------------- *)

set_auth_type(s, type) ==
    /\ Begin(s)
    /\ authType' = [authType EXCEPT ![s] = type]
    /\ Finish(s, Sets(NewCall(s, "set_auth_type", ""), 1), Self)
    /\ UNCHANGED server_dbs
    /\ UNCHANGED cache

(* ---------------------- logout (connection.h:300) --------------------- *)

\* DELETE /_session is sent under every auth type but auth_none
logout_sends_unless_none(a) == a # auth_none

\* the switch of logout(): DELETE /_session is sent under auth_cookie only
logout_sends(a) == a = auth_cookie

\* what logout() gives its caller for the transport's reply
logout_result(reply) == IF reply.thrown THEN Throw(reply.err) ELSE Self

logout(s) ==
    /\ Begin(s)
    /\ LET c == NewCall(s, "logout", "")
       IN IF logout_sends(authType[s])
          THEN \E reply \in SessionReplies :
                 Finish(s, Issue(c, "DELETE", SessionPath, authType[s], reply, TRUE),
                        logout_result(reply))
          ELSE Finish(s, c, Self)
    /\ UNCHANGED <<authType, server_dbs>>
    /\ UNCHANGED cache

(* ------------------ get_login_info (connection.h:288) ----------------- *)

\* the switch of get_login_info(): GET /_session under auth_cookie only
get_login_info_sends(a) == a = auth_cookie

get_login_info_result(reply) == IF reply.thrown THEN Throw(reply.err) ELSE Json

get_login_info(s) ==
    /\ Begin(s)
    /\ LET c == NewCall(s, "get_login_info", "")
       IN IF get_login_info_sends(authType[s])
          THEN \E reply \in SessionReplies :
                 Finish(s, Issue(c, "GET", SessionPath, authType[s], reply, TRUE),
                        get_login_info_result(reply))
          ELSE Finish(s, c, Null)
    /\ UNCHANGED <<authType, server_dbs>>
    /\ UNCHANGED cache

(* ----------------------- login (connection.h:251) --------------------- *)

\* the switch of login(): auth_basic and auth_cookie log in, auth_none does not
login_authenticates(t) == t \in {auth_basic, auth_cookie}

\* the POST goes out under the auth type login() started with
login_post_keeps_auth_type(t) == t

\* line 264: the auth type the POST goes out under
login_post_auth_type(t) == auth_basic

\* the cookie is logged out again whatever the auth type
login_discards_always(t) == TRUE

\* line 269: under basic auth the cookie just obtained is logged out again
login_discards_cookie(t) == t = auth_basic

\* line 271: the auth type logout() is called under
login_logout_auth_type(t) == auth_cookie

\* the catch clause rethrows without setting the auth type back
login_catch_keeps_cookie(t) == auth_cookie

\* line 274: the auth type set by the catch clause before it rethrows
login_catch_auth_type(t) == t

\* line 274: what the catch clause throws
login_catch_throws(e) == e

\* login() ends without the reset: the auth type stays as last set
login_reset_skipped(t) == IF t = auth_basic THEN auth_cookie ELSE auth_basic

\* line 277: the auth type login() ends with
login_reset_auth_type(t) == t

\* lines 253-265, and 277 when the cookie is kept
login(s) ==
    /\ Begin(s)
    /\ LET t == authType[s]
           c == NewCall(s, "login", "")
       IN IF ~login_authenticates(t)
          THEN /\ Finish(s, c, Self)
               /\ UNCHANGED authType
          ELSE \E reply \in SessionReplies :
                 LET posted == Issue(Sets(c, 1), "POST", SessionPath,
                                     login_post_auth_type(t), reply, TRUE)
                 IN IF reply.thrown
                    THEN /\ authType' = [authType EXCEPT ![s] = login_post_auth_type(t)]
                         /\ Finish(s, posted, Throw(reply.err))
                    ELSE IF login_discards_cookie(t)
                         THEN /\ authType' = [authType EXCEPT ![s] = login_logout_auth_type(t)]
                              /\ Goto(s, Sets(posted, 1), "login_logout")
                         ELSE /\ authType' = [authType EXCEPT ![s] = login_reset_auth_type(t)]
                              /\ Finish(s, Sets(posted, 1), Self)
    /\ UNCHANGED server_dbs
    /\ UNCHANGED cache

\* lines 273-277: this->logout() and the reset, or the catch clause
login_logout(s) ==
    /\ pc[s] = "login_logout"
    /\ LET t == cur[s].t
           c == cur[s]
       IN IF logout_sends(authType[s])
          THEN \E reply \in SessionReplies :
                 LET sent == Issue(Sets(c, 1), "DELETE", SessionPath, authType[s], reply, TRUE)
                 IN IF logout_result(reply).kind = "error"
                    THEN /\ authType' = [authType EXCEPT ![s] = login_catch_auth_type(t)]
                         /\ Finish(s, sent, Throw(login_catch_throws(reply.err)))
                    ELSE /\ authType' = [authType EXCEPT ![s] = login_reset_auth_type(t)]
                         /\ Finish(s, sent, Self)
          ELSE /\ authType' = [authType EXCEPT ![s] = login_reset_auth_type(t)]
               /\ Finish(s, Sets(c, 1), Self)
    /\ UNCHANGED <<server_dbs, prev>>
    /\ UNCHANGED cache

(* ------------------------------ server -------------------------------- *)

\* A reply to a database request, with the databases the server holds after
\* it.  A faithful reply is the one a working server and network give; any
\* other reply is a fault and leaves the server as it was.

FileExists(v) ==
    /\ is_object(v)
    /\ DOMAIN v.members = {"error", "reason"}
    /\ v.members["error"] = JString("file_exists")
    /\ v.members["reason"].type = "string"

NotFound(v) ==
    /\ is_object(v)
    /\ DOMAIN v.members = {"error", "reason"}
    /\ v.members["error"] = JString("not_found")
    /\ v.members["reason"].type = "string"

HeadFaithful(db, reply) ==
    IF db \in server_dbs
    THEN ~reply.thrown
    ELSE reply.thrown /\ reply.err.type = content_not_found

PutFaithful(db, reply) ==
    IF db \in server_dbs
    THEN ~reply.thrown /\ FileExists(reply.val)
    ELSE ~reply.thrown /\ reply.val = OkObject

DeleteFaithful(db, reply) ==
    IF db \in server_dbs
    THEN ~reply.thrown /\ reply.val = OkObject
    ELSE \/ reply.thrown /\ reply.err.type = content_not_found
         \/ ~reply.thrown /\ NotFound(reply.val)

HeadReplies(db) ==
    {[reply |-> r, dbs |-> server_dbs, faithful |-> HeadFaithful(db, r)] :
        r \in RawReplies}

PutReplies(db) ==
    {[reply |-> r,
      dbs |-> IF PutFaithful(db, r) THEN server_dbs \cup {db} ELSE server_dbs,
      faithful |-> PutFaithful(db, r)] : r \in PutData}

DeleteReplies(db) ==
    {[reply |-> r,
      dbs |-> IF DeleteFaithful(db, r) THEN server_dbs \ {db} ELSE server_dbs,
      faithful |-> DeleteFaithful(db, r)] : r \in DeleteData}

(* ---------------------- get_db (connection.h:158) --------------------- *)

\* lines 160-161: the HEAD either raises or the reference is returned
get_db_result(db, reply) ==
    IF reply.thrown THEN Throw(reply.err) ELSE Database(db)

get_db(s, db) ==
    /\ Begin(s)
    /\ \E h \in HeadReplies(db) :
         /\ Finish(s, Issue(NewCall(s, "get_db", db), "HEAD", DbPath(db),
                            authType[s], h.reply, h.faithful),
                   get_db_result(db, h.reply))
         /\ server_dbs' = h.dbs
    /\ UNCHANGED authType
    /\ UNCHANGED cache

\* A transport whose get_raw_data hands the status back instead of raising
\* on a non-success status
Reported(status) ==
    [thrown |-> FALSE, err |-> NoError, val |-> JNull, status |-> status]
ReportedHeadReplies(db) ==
    {[reply |-> Reported(n), dbs |-> server_dbs,
      faithful |-> (n = 200 <=> db \in server_dbs) /\ n # 500] : n \in {200, 404, 500}}

\* get_db over the transport that reports the status
get_db_reported(s, db) ==
    /\ Begin(s)
    /\ \E h \in ReportedHeadReplies(db) :
         /\ Finish(s, Issue(NewCall(s, "get_db", db), "HEAD", DbPath(db),
                            authType[s], h.reply, h.faithful),
                   get_db_result(db, h.reply))
         /\ server_dbs' = h.dbs
    /\ UNCHANGED authType
    /\ UNCHANGED cache

(* -------------------- create_db (connection.h:171) -------------------- *)

\* the ok member is looked at before the error member
create_db_result_ok_first(db, reply) ==
    IF reply.thrown THEN Throw(reply.err)
    ELSE IF ~is_object(reply.val) THEN Throw(error(database_unavailable, ""))
    ELSE IF get_bool(member(reply.val, "ok")) THEN Database(db)
    ELSE IF is_member(reply.val, "error")
         THEN Throw(error(database_not_creatable,
                          get_string(member(reply.val, "reason"))))
    ELSE Throw(error(database_not_creatable, ""))

\* lines 173-188
create_db_result(db, reply) ==
    IF reply.thrown THEN Throw(reply.err)
    ELSE IF ~is_object(reply.val) THEN Throw(error(database_unavailable, ""))
    ELSE IF is_member(reply.val, "error")
         THEN Throw(error(database_not_creatable,
                          get_string(member(reply.val, "reason"))))
    ELSE IF ~get_bool(member(reply.val, "ok"))
         THEN Throw(error(database_not_creatable, ""))
    ELSE Database(db)

create_db(s, db) ==
    /\ Begin(s)
    /\ \E p \in PutReplies(db) :
         /\ Finish(s, Issue(NewCall(s, "create_db", db), "PUT", DbPath(db),
                            authType[s], p.reply, p.faithful),
                   create_db_result(db, p.reply))
         /\ server_dbs' = p.dbs
    /\ UNCHANGED authType
    /\ UNCHANGED cache

(* -------------------- remove_db (connection.h:211) -------------------- *)

\* lines 213-228
remove_db_result(reply) ==
    IF reply.thrown THEN Throw(reply.err)
    ELSE IF ~is_object(reply.val) THEN Throw(error(database_not_deletable, ""))
    ELSE IF is_member(reply.val, "error")
         THEN Throw(error(database_not_deletable,
                          get_string(member(reply.val, "reason"))))
    ELSE IF ~get_bool(member(reply.val, "ok"))
         THEN Throw(error(database_not_deletable, ""))
    ELSE Self

remove_db(s, db) ==
    /\ Begin(s)
    /\ \E d \in DeleteReplies(db) :
         /\ Finish(s, Issue(NewCall(s, "remove_db", db), "DELETE", DbPath(db),
                            authType[s], d.reply, d.faithful),
                   remove_db_result(d.reply))
         /\ server_dbs' = d.dbs
    /\ UNCHANGED authType
    /\ UNCHANGED cache

(* ------------ list_db_names and the like (connection.h:95) ------------ *)

Underscore == <<"_">>
ShardsPrefix == <<"s", "h", "a", "r", "d", "s", "/">>

\* the names a server lists
ListedNames == {<<"_", "r", "e", "p", "l", "i", "c", "a", "t", "o", "r">>,
                <<"s", "h", "a", "r", "d", "s", "/", "x">>,
                <<"a", "l", "p", "h", "a">>,
                <<"b", "e", "t", "a">>,
                <<"s", "h", "a", "r", "d", "s">>,
                <<"a", "_", "b">>}
ExampleList == <<<<"_", "r", "e", "p", "l", "i", "c", "a", "t", "o", "r">>,
                 <<"s", "h", "a", "r", "d", "s", "/", "x">>,
                 <<"a", "l", "p", "h", "a">>,
                 <<"b", "e", "t", "a">>>>
\* get_data("/_all_dbs"): raises, or returns an array of names or another value
AllDbsReplies ==
    {Thrown(e) : e \in Errors}
        \cup {Returned(JArrayOf(a)) :
                 a \in SeqsUpTo(ListedNames, MaxItems) \cup {ExampleList}}
        \cup {Returned(JNull), Returned(OkObject)}

\* only a name beginning with '_' is left out
keeps_unless_underscore(name) == find(name, Underscore) # 0

\* line 104: a name is listed unless it begins with '_' or with "shards/"
list_db_names_keeps(name) ==
    find(name, Underscore) # 0 /\ find(name, ShardsPrefix) # 0

\* lines 97-108
list_db_names_result(reply) ==
    IF reply.thrown THEN Fails(reply.err)
    ELSE IF ~is_array(reply.val) THEN Fails(error(database_unavailable, ""))
    ELSE LET keep(name) == list_db_names_keeps(name)
         IN Returns(SelectSeq(item_strings(reply.val), keep))

\* lines 114-122
list_all_db_names_result(reply) ==
    IF reply.thrown THEN Fails(reply.err)
    ELSE IF ~is_array(reply.val) THEN Fails(error(database_unavailable, ""))
    ELSE Returns(item_strings(reply.val))

list_db_names(s, replies) ==
    /\ Begin(s)
    /\ \E reply \in replies :
         Ends(s, Issue(NewCall(s, "list_db_names", ""), "GET", "/_all_dbs",
                       authType[s], reply, TRUE),
              list_db_names_result(reply))
    /\ UNCHANGED <<authType, server_dbs>>
    /\ UNCHANGED cache

list_all_db_names(s, replies) ==
    /\ Begin(s)
    /\ \E reply \in replies :
         Ends(s, Issue(NewCall(s, "list_all_db_names", ""), "GET", "/_all_dbs",
                       authType[s], reply, TRUE),
              list_all_db_names_result(reply))
    /\ UNCHANGED <<authType, server_dbs>>
    /\ UNCHANGED cache

\* lines 127-141: the database objects of the names list_db_names gives
list_dbs(s, replies) ==
    /\ Begin(s)
    /\ \E reply \in replies :
         Ends(s, Issue(NewCall(s, "list_dbs", ""), "GET", "/_all_dbs",
                       authType[s], reply, TRUE),
              list_db_names_result(reply))
    /\ UNCHANGED <<authType, server_dbs>>
    /\ UNCHANGED cache

\* lines 144-155: the database objects of the names list_all_db_names gives
list_all_dbs(s, replies) ==
    /\ Begin(s)
    /\ \E reply \in replies :
         Ends(s, Issue(NewCall(s, "list_all_dbs", ""), "GET", "/_all_dbs",
                       authType[s], reply, TRUE),
              list_all_db_names_result(reply))
    /\ UNCHANGED <<authType, server_dbs>>
    /\ UNCHANGED cache

(* ------------------ list_user_names (connection.h:330) ---------------- *)

UserPrefix == <<"o", "r", "g", ".", "c", "o", "u", "c", "h", "d", "b", ".", "u", "s", "e", "r", ":">>

\* the ids the rows of /_users/_all_docs carry
UserIds == {<<"o", "r", "g", ".", "c", "o", "u", "c", "h", "d", "b", ".", "u", "s", "e", "r", ":", "a", "l", "i", "c", "e">>,
            <<"_", "d", "e", "s", "i", "g", "n", "/", "x">>,
            <<"o", "r", "g", ".", "c", "o", "u", "c", "h", "d", "b", ".", "u", "s", "e", "r", ":">>,
            <<"b", "o", "b">>,
            <<"o", "r", "g", ".", "c", "o", "u", "c", "h", "d", "b", ".", "u", "s", "e", "r", ":", "_", "x">>,
            <<>>}
ExampleIds == <<<<"o", "r", "g", ".", "c", "o", "u", "c", "h", "d", "b", ".", "u", "s", "e", "r", ":", "a", "l", "i", "c", "e">>,
                <<"_", "d", "e", "s", "i", "g", "n", "/", "x">>>>
\* get_data("/_users/_all_docs"): raises, or returns an object with rows, an
\* object whose rows is no array or that has none, or another value
UsersReplies ==
    {Thrown(e) : e \in Errors}
        \cup {Returned(JObjectOf("rows", JRows(ids))) :
                 ids \in SeqsUpTo(UserIds, MaxItems) \cup {ExampleIds}}
        \cup {Returned(JObjectOf("rows", JString(UserPrefix))),
              Returned(OkObject), Returned(JNull), Returned(JArrayOf(<<>>))}

\* the prefix goes before the '_' test
list_user_names_row_strips_first(id) ==
    LET name == IF find(id, UserPrefix) = 0
                THEN erase_front(id, Len(UserPrefix)) ELSE id
    IN IF find(name, Underscore) = 0 \/ name = <<>> THEN <<>> ELSE <<name>>

\* lines 340-350: what one row adds to the list
list_user_names_row(id) ==
    IF find(id, Underscore) = 0 THEN <<>>
    ELSE LET name == IF find(id, UserPrefix) = 0
                     THEN erase_front(id, Len(UserPrefix)) ELSE id
         IN IF name # <<>> THEN <<name>> ELSE <<>>

RECURSIVE list_user_names_rows(_)
\* lines 338-351: the loop over the rows
list_user_names_rows(rows) ==
    IF rows = <<>> THEN <<>>
    ELSE list_user_names_row(get_text(member(Head(rows), "id")))
             \o list_user_names_rows(Tail(rows))

\* lines 332-353
list_user_names_result(reply) ==
    IF reply.thrown THEN Fails(reply.err)
    ELSE IF ~is_object(reply.val) \/ ~is_array(member(reply.val, "rows"))
    THEN Fails(error(bad_response, ""))
    ELSE Returns(list_user_names_rows(member(reply.val, "rows").items))

list_user_names(s, replies) ==
    /\ Begin(s)
    /\ \E reply \in replies :
         Ends(s, Issue(NewCall(s, "list_user_names", ""), "GET", "/_users/_all_docs",
                       authType[s], reply, TRUE),
              list_user_names_result(reply))
    /\ UNCHANGED <<authType, server_dbs>>
    /\ UNCHANGED cache

(* ----------------- ensure_db_exists (connection.h:192) ---------------- *)

\* the catch clause rethrows every error
ensure_db_exists_rethrows_all(e) == TRUE

\* the catch clause swallows every error
ensure_db_exists_swallows_all(e) == FALSE

\* line 195: the catch clause rethrows every error but content_not_found
ensure_db_exists_rethrows(e) == e.type # content_not_found

\* line 194: try {return get_db(db);} and the catch clause
ensure_db_exists(s, db) ==
    /\ Begin(s)
    /\ \E h \in HeadReplies(db) :
         LET c == Issue(NewCall(s, "ensure_db_exists", db), "HEAD", DbPath(db),
                        authType[s], h.reply, h.faithful)
             got == get_db_result(db, h.reply)
         IN /\ IF got.kind = "error" /\ ~ensure_db_exists_rethrows(got.err)
               THEN Goto(s, c, "ensure_db_exists_create")
               ELSE Finish(s, c, got)
            /\ server_dbs' = h.dbs
    /\ UNCHANGED authType
    /\ UNCHANGED cache

\* line 197: return create_db(db);
ensure_db_exists_create(s) ==
    /\ pc[s] = "ensure_db_exists_create"
    /\ LET db == cur[s].db
       IN \E p \in PutReplies(db) :
            /\ Finish(s, Issue(cur[s], "PUT", DbPath(db), authType[s],
                               p.reply, p.faithful),
                      create_db_result(db, p.reply))
            /\ server_dbs' = p.dbs
    /\ UNCHANGED <<authType, prev>>
    /\ UNCHANGED cache

(* --------------- ensure_db_is_deleted (connection.h:201) -------------- *)

\* the catch clause swallows content_not_found only
ensure_db_is_deleted_rethrows_not_deletable(e) == e.type # content_not_found

\* line 204: the catch clause rethrows every error but these two
ensure_db_is_deleted_rethrows(e) ==
    e.type # content_not_found /\ e.type # database_not_deletable

\* lines 203-206
ensure_db_is_deleted_result(removed) ==
    IF removed.kind = "error" /\ ~ensure_db_is_deleted_rethrows(removed.err)
    THEN Self
    ELSE removed

ensure_db_is_deleted(s, db) ==
    /\ Begin(s)
    /\ \E d \in DeleteReplies(db) :
         /\ Finish(s, Issue(NewCall(s, "ensure_db_is_deleted", db), "DELETE",
                            DbPath(db), authType[s], d.reply, d.faithful),
                   ensure_db_is_deleted_result(remove_db_result(d.reply)))
         /\ server_dbs' = d.dbs
    /\ UNCHANGED authType
    /\ UNCHANGED cache

(* ----------------- get_couchdb_info (connection.h:417) ---------------- *)

DigitOf == [c \in {"0", "1", "2", "3", "4", "5", "6", "7", "8", "9"} |->
               CASE c = "0" -> 0 [] c = "1" -> 1 [] c = "2" -> 2 [] c = "3" -> 3
                 [] c = "4" -> 4 [] c = "5" -> 5 [] c = "6" -> 6 [] c = "7" -> 7
                 [] c = "8" -> 8 [] c = "9" -> 9]
\* the largest int
IntMax == 2147483647

\* the version strings a server reports
VersionChars == {"1", "2", ".", "v"}
ExampleVersions == {<<"2", ".", "3", ".", "1">>,
                    <<"v", "N", "e", "x", "t">>,
                    <<"+", "9">>,
                    <<"1", "0", ".", "0">>,
                    <<"-", "2">>}
\* get_data(""): raises, or returns an object with a version, an object
\* without one, or another value
InfoReplies ==
    {Thrown(e) : e \in Errors}
        \cup {Returned(JObjectOf("version", JString(v))) :
                 v \in SeqsUpTo(VersionChars, MaxVersionLen)
                          \cup ExampleVersions}
        \cup {Returned(OkObject), Returned(JNull)}

RECURSIVE digits_value(_)
\* the number a run of digits writes
digits_value(str) ==
    IF str = <<>> THEN 0
    ELSE digits_value(SubSeq(str, 1, Len(str) - 1)) * 10
             + DigitOf[str[Len(str)]]

RECURSIVE leading_digits(_)
\* the digits str begins with
leading_digits(str) ==
    IF str = <<>> \/ Head(str) \notin DOMAIN DigitOf THEN <<>>
    ELSE <<Head(str)>> \o leading_digits(Tail(str))

\* line 429, stream >> couchdb_major: an optional sign and the digits that
\* follow; the stream fails when there is no digit or the number is no int
extract_int(str) ==
    LET negative == str # <<>> /\ Head(str) = "-"
        body == IF str # <<>> /\ Head(str) \in {"+", "-"} THEN Tail(str) ELSE str
        digits == leading_digits(body)
        number == IF negative THEN 0 - digits_value(digits)
                  ELSE digits_value(digits)
    IN [fail |-> digits = <<>> \/ number > IntMax \/ number < 0 - IntMax - 1,
        value |-> number]

\* the major version stays as it was when the stream fails
major_kept_on_failure(extracted, major) ==
    IF extracted.fail THEN major ELSE extracted.value

\* lines 429-431: what couchdb_major holds after the extraction
major_after(extracted, major) ==
    IF extracted.fail THEN 0 - 1 ELSE extracted.value

\* lines 424-426: the version up to its first '.'
before_dot(version) ==
    IF find(version, <<".">>) # npos THEN erase_from(version, find(version, <<".">>))
    ELSE version

\* what get_couchdb_info throws on the reply, NoError when it returns
get_couchdb_info_error(reply) ==
    IF reply.thrown THEN reply.err
    ELSE IF ~is_object(reply.val) THEN error(bad_response, "")
    ELSE NoError

\* the version is written and the major version is left as it was
get_couchdb_info_version_only(s, reply) ==
    IF get_couchdb_info_error(reply) # NoError THEN UNCHANGED cache
    ELSE /\ couchDBVersion' =
                [couchDBVersion EXCEPT
                    ![s] = get_text(member(reply.val, "version"))]
         /\ UNCHANGED couchdb_major

\* lines 419-431: the fields are written once the response is an object
get_couchdb_info(s, reply) ==
    IF get_couchdb_info_error(reply) # NoError THEN UNCHANGED cache
    ELSE LET version == get_text(member(reply.val, "version"))
         IN /\ couchDBVersion' = [couchDBVersion EXCEPT ![s] = version]
            /\ couchdb_major' =
                   [couchdb_major EXCEPT ![s] =
                       major_after(extract_int(before_dot(version)), @)]

\* the server info is fetched twice
fetches_again(s, c, reply, res) ==
    /\ get_couchdb_info(s, reply)
    /\ Ends(s, Issue(Issue(c, "GET", "", authType[s], reply, TRUE),
                     "GET", "", authType[s], reply, TRUE),
            IF get_couchdb_info_error(reply) # NoError
            THEN Fails(get_couchdb_info_error(reply)) ELSE res)
    /\ UNCHANGED <<authType, server_dbs>>

\* the call c of session s fetches the server info; with it fetched the call
\* ends as res says
Fetches(s, c, reply, res) ==
    /\ get_couchdb_info(s, reply)
    /\ Ends(s, Issue(c, "GET", "", authType[s], reply, TRUE),
            IF get_couchdb_info_error(reply) # NoError
            THEN Fails(get_couchdb_info_error(reply)) ELSE res)
    /\ UNCHANGED <<authType, server_dbs>>

\* lines 69-73
get_couchdb_version(s, replies) ==
    /\ Begin(s)
    /\ \E reply \in replies :
         Fetches(s, NewCall(s, "get_couchdb_version", ""), reply,
                 Returns(couchDBVersion'[s]))

\* lines 410-414
get_major_version(s, replies) ==
    /\ Begin(s)
    /\ \E reply \in replies :
         Fetches(s, NewCall(s, "get_major_version", ""), reply,
                 Returns(couchdb_major'[s]))

\* clusters are supported from version 1 on
supports_clusters_from_1(major) == major >= 1

\* line 384, on what get_major_version returned
supports_clusters(major) == major >= 2

get_supports_clusters(s, replies) ==
    /\ Begin(s)
    /\ \E reply \in replies :
         Fetches(s, NewCall(s, "get_supports_clusters", ""), reply,
                 Returns(supports_clusters(couchdb_major'[s])))

\* lines 388-395
upgrade_to_cluster_connection(s, replies) ==
    /\ Begin(s)
    /\ \E reply \in replies :
         Fetches(s, NewCall(s, "upgrade_to_cluster_connection", ""), reply,
                 IF supports_clusters(couchdb_major'[s])
                 THEN Result(ClusterConnection, <<>>) ELSE Result(Null, <<>>))

\* lines 401-407; std::string() is the name of the node made here
upgrade_to_node_connection(s, replies) ==
    /\ Begin(s)
    /\ \E reply \in replies :
         Fetches(s, NewCall(s, "upgrade_to_node_connection", ""), reply,
                 IF ~supports_clusters(couchdb_major'[s])
                 THEN Result(NodeConnection, <<>>) ELSE Result(FirstNode, <<>>))

(* ------------- the other operations of the connection ---------------- *)

\* a transport call that hands its JSON value on to the caller: it raises,
\* or returns an object or another value
SomeErrors == {error(communication_error, "")}
JsonReplies ==
    {Thrown(e) : e \in SomeErrors} \cup {Returned(OkObject), Returned(JNull)}

UserPath(name) == "/_users/org.couchdb.user:" \o url_encode(name)

\* what a handler that returns the transport's value gives its caller
json_result(reply) ==
    IF reply.thrown THEN Fails(reply.err) ELSE Result(Json, <<>>)

\* lines 314-328
create_user(s, name) ==
    /\ Begin(s)
    /\ \E reply \in JsonReplies :
         Ends(s, Issue(NewCall(s, "create_user", ""), "PUT", UserPath(name),
                       authType[s], reply, TRUE),
              json_result(reply))
    /\ UNCHANGED <<authType, server_dbs>>
    /\ UNCHANGED cache

\* lines 363-366
get_user_info(s, name) ==
    /\ Begin(s)
    /\ \E reply \in JsonReplies :
         Ends(s, Issue(NewCall(s, "get_user_info", ""), "GET", UserPath(name),
                       authType[s], reply, TRUE),
              json_result(reply))
    /\ UNCHANGED <<authType, server_dbs>>
    /\ UNCHANGED cache

\* lines 369-372
delete_user(s, name) ==
    /\ Begin(s)
    /\ \E reply \in JsonReplies :
         Ends(s, Issue(NewCall(s, "delete_user", ""), "DELETE", UserPath(name),
                       authType[s], reply, TRUE),
              json_result(reply))
    /\ UNCHANGED <<authType, server_dbs>>
    /\ UNCHANGED cache

\* get_data("/_active_tasks"): raises, or returns an array or another value
TasksReplies ==
    {Thrown(e) : e \in SomeErrors}
        \cup {Returned(JArrayOf(<<>>)), Returned(OkObject)}
\* lines 377-380
get_active_tasks_result(reply) ==
    IF reply.thrown THEN Fails(reply.err)
    ELSE IF ~is_array(reply.val) THEN Fails(error(bad_response, ""))
    ELSE Result(Json, <<>>)

get_active_tasks(s) ==
    /\ Begin(s)
    /\ \E reply \in TasksReplies :
         Ends(s, Issue(NewCall(s, "get_active_tasks", ""), "GET", "/_active_tasks",
                       authType[s], reply, TRUE),
              get_active_tasks_result(reply))
    /\ UNCHANGED <<authType, server_dbs>>
    /\ UNCHANGED cache

\* get_data("/_uuids?count=n"): raises, or returns an object with the uuids,
\* an object with uuids that is no array or without uuids, or another value
UuidsReplies ==
    {Thrown(e) : e \in SomeErrors}
        \cup {Returned(JObjectOf("uuids", JArrayOf(<<<<"7", "e", "4">>, <<"7", "e", "5">>>>))),
              Returned(JObjectOf("uuids", JNull)),
              Returned(OkObject), Returned(JNull)}
UuidsPath(count) == "/_uuids?count=" \o ToString(count)

\* lines 78-90
get_uuids_result(reply) ==
    IF reply.thrown THEN Fails(reply.err)
    ELSE IF ~is_object(reply.val) THEN Fails(error(bad_response, ""))
    ELSE IF ~is_array(member(reply.val, "uuids"))
    THEN Fails(error(bad_response, ""))
    ELSE Returns(item_strings(member(reply.val, "uuids")))

get_uuids(s, count) ==
    /\ Begin(s)
    /\ \E reply \in UuidsReplies :
         Ends(s, Issue(NewCall(s, "get_uuids", ""), "GET", UuidsPath(count),
                       authType[s], reply, TRUE),
              get_uuids_result(reply))
    /\ UNCHANGED <<authType, server_dbs>>
    /\ UNCHANGED cache

\* database::exists() for the HEAD reply
db_exists_result(reply) ==
    IF ~reply.thrown THEN Returns(TRUE)
    ELSE IF reply.err.type = content_not_found THEN Returns(FALSE)
    ELSE Fails(reply.err)

\* lines 165-168
db_exists(s, db) ==
    /\ Begin(s)
    /\ \E h \in HeadReplies(db) :
         /\ Ends(s, Issue(NewCall(s, "db_exists", db), "HEAD", DbPath(db),
                          authType[s], h.reply, h.faithful),
                 db_exists_result(h.reply))
         /\ server_dbs' = h.dbs
    /\ UNCHANGED authType
    /\ UNCHANGED cache

\* lines 234 and 239: set_server_url and set_user hand their argument to the
\* transport and return the connection
set_server_url(s) ==
    /\ Begin(s)
    /\ Finish(s, NewCall(s, "set_server_url", ""), Self)
    /\ UNCHANGED <<authType, server_dbs>>
    /\ UNCHANGED cache

set_user(s) ==
    /\ Begin(s)
    /\ Finish(s, NewCall(s, "set_user", ""), Self)
    /\ UNCHANGED <<authType, server_dbs>>
    /\ UNCHANGED cache

(* --------------------------- specification ---------------------------- *)

\* the sessions that make calls under Spec: one connection, used
\* sequentially
Callers == {1}

Next ==
    \E s \in Callers :
        \/ \E type \in AuthTypes : set_auth_type(s, type)
        \/ login(s)
        \/ login_logout(s)
        \/ logout(s)
        \/ get_login_info(s)
        \/ \E db \in DbNames : get_db(s, db)
        \/ \E db \in DbNames : create_db(s, db)
        \/ \E db \in DbNames : remove_db(s, db)
        \/ \E db \in DbNames : ensure_db_exists(s, db)
        \/ ensure_db_exists_create(s)
        \/ \E db \in DbNames : ensure_db_is_deleted(s, db)

Spec == Init /\ [][Next]_vars

\* get_db over either transport: the one that raises on a non-success status
\* and the one that reports the status
NextRaw ==
    \E s \in Callers :
        \/ \E db \in DbNames : get_db(s, db)
        \/ \E db \in DbNames : get_db_reported(s, db)

SpecRaw == Init /\ [][NextRaw]_vars

\* the listing operations over every array a server answers with, on a
\* connection without credentials and a server without databases
InitList ==
    /\ Init
    /\ authType[1] = auth_none
    /\ server_dbs = {}

NextList ==
    \E s \in Callers :
        \/ list_db_names(s, AllDbsReplies)
        \/ list_all_db_names(s, AllDbsReplies)
        \/ list_dbs(s, AllDbsReplies)
        \/ list_all_dbs(s, AllDbsReplies)
        \/ list_user_names(s, UsersReplies)

SpecList == InitList /\ [][NextList]_vars

\* the version and capability operations over every version string, on a
\* connection whose couchdb_major holds whatever the constructor left there
InitInfo ==
    /\ Constructed
    /\ authType[1] = auth_none
    /\ server_dbs = {}
    /\ couchdb_major \in [Sessions -> Indeterminate]
    /\ \A s \in Sessions \ Callers : couchdb_major[s] = 7

NextInfo ==
    \E s \in Callers :
        \/ get_couchdb_version(s, InfoReplies)
        \/ get_major_version(s, InfoReplies)
        \/ get_supports_clusters(s, InfoReplies)
        \/ upgrade_to_cluster_connection(s, InfoReplies)
        \/ upgrade_to_node_connection(s, InfoReplies)

SpecInfo == InitInfo /\ [][NextInfo]_vars

\* every operation of the connection, on one database name and with a few
\* replies to each of the requests about lists, users and the server info
SomeAllDbs ==
    {Thrown(e) : e \in SomeErrors}
        \cup {Returned(JArrayOf(ExampleList)), Returned(JNull)}
SomeUsers ==
    {Thrown(e) : e \in SomeErrors}
        \cup {Returned(JObjectOf("rows", JRows(ExampleIds))), Returned(JNull)}
SomeInfo ==
    {Thrown(e) : e \in SomeErrors}
        \cup {Returned(JObjectOf("version", JString(v))) : v \in ExampleVersions}
        \cup {Returned(JNull)}
TheDb == {AllNames[1]}

InitAll ==
    /\ Constructed
    /\ server_dbs \subseteq TheDb
    /\ couchdb_major \in [Sessions -> Indeterminate]
    /\ \A s \in Sessions \ Callers : couchdb_major[s] = 7

NextAll ==
    \E s \in Callers :
        \/ \E type \in AuthTypes : set_auth_type(s, type)
        \/ login(s)
        \/ login_logout(s)
        \/ logout(s)
        \/ get_login_info(s)
        \/ \E db \in TheDb : get_db(s, db)
        \/ \E db \in TheDb : db_exists(s, db)
        \/ \E db \in TheDb : create_db(s, db)
        \/ \E db \in TheDb : remove_db(s, db)
        \/ \E db \in TheDb : ensure_db_exists(s, db)
        \/ ensure_db_exists_create(s)
        \/ \E db \in TheDb : ensure_db_is_deleted(s, db)
        \/ list_db_names(s, SomeAllDbs)
        \/ list_all_db_names(s, SomeAllDbs)
        \/ list_dbs(s, SomeAllDbs)
        \/ list_all_dbs(s, SomeAllDbs)
        \/ \E count \in {10} : get_uuids(s, count)
        \/ \E name \in {"alice"} : create_user(s, name)
        \/ list_user_names(s, SomeUsers)
        \/ \E name \in {"alice"} : get_user_info(s, name)
        \/ \E name \in {"alice"} : delete_user(s, name)
        \/ get_active_tasks(s)
        \/ set_server_url(s)
        \/ set_user(s)
        \/ get_couchdb_version(s, SomeInfo)
        \/ get_major_version(s, SomeInfo)
        \/ get_supports_clusters(s, SomeInfo)
        \/ upgrade_to_cluster_connection(s, SomeInfo)
        \/ upgrade_to_node_connection(s, SomeInfo)

SpecAll == InitAll /\ [][NextAll]_vars

\* two connections call ensure_db_exists at the same time, their requests
\* interleaved in any order, on a server and a network that work
NextConc ==
    \E s \in Sessions :
        \/ \E db \in DbNames : ensure_db_exists(s, db) /\ Faithful(cur'[s])
        \/ ensure_db_exists_create(s) /\ Faithful(cur'[s])

SpecConc == Init /\ [][NextConc]_vars

(* ------------------------------ claims -------------------------------- *)

\* session s has a finished call of operation op
Finished(s, op) == pc[s] = "idle" /\ cur[s].op = op

\* request i of call c is the given method on the given path
IsRequest(c, i, method, path) ==
    /\ i \in 1..Len(c.requests)
    /\ c.requests[i].method = method
    /\ c.requests[i].path = path

\* C1: a login() call that returns normally leaves the auth type equal to the
\* one it started under, for each of auth_none, auth_basic and auth_cookie.
C1_LoginRoundTrip ==
    \A s \in Sessions :
        (Finished(s, "login") /\ cur[s].outcome = Self)
            => authType[s] = cur[s].t

\* login() under auth_basic has returned: a cookie was obtained, the DELETE
\* went out under auth_cookie, and the auth type is auth_basic again
C1_Witness ==
    \E s \in Sessions :
        /\ Finished(s, "login") /\ cur[s].outcome = Self
        /\ cur[s].t = auth_basic
        /\ Len(cur[s].requests) = 2
        /\ ~cur[s].requests[1].reply.thrown
        /\ cur[s].requests[2].auth = auth_cookie
        /\ authType[s] = auth_basic

\* a finished login() under auth_basic whose POST succeeded and whose
\* internal logout() raised
LogoutFailed(s) ==
    /\ Finished(s, "login")
    /\ cur[s].t = auth_basic
    /\ Len(cur[s].requests) = 2
    /\ ~cur[s].requests[1].reply.thrown
    /\ IsRequest(cur[s], 2, "DELETE", SessionPath)
    /\ cur[s].requests[2].reply.thrown

\* C2: when login() under auth_basic has its internal logout() fail after a
\* successful POST, the caller gets the error logout() raised and the auth
\* type is auth_basic at that moment.
C2_LogoutFailureRestores ==
    \A s \in Sessions :
        LogoutFailed(s) =>
            /\ authType[s] = auth_basic
            /\ cur[s].outcome = Throw(cur[s].requests[2].reply.err)

C2_Witness ==
    \E s \in Sessions :
        /\ LogoutFailed(s)
        /\ cur[s].outcome = Throw(error(communication_error, "the reason"))
        /\ authType[s] = auth_basic

\* C3: whenever login() fails, at its POST or at its internal logout(), the
\* auth type when the failure reaches the caller is the one login() started
\* under.
C3_LoginFailureRestores ==
    \A s \in Sessions :
        (Finished(s, "login") /\ cur[s].outcome.kind = "error")
            => authType[s] = cur[s].t

\* C4: whenever login() issues POST /_session, the auth type at that moment
\* is auth_basic, under either starting auth type.
C4_PostUnderBasic ==
    \A s \in Sessions :
        cur[s].op = "login" =>
            \A i \in 1..Len(cur[s].requests) :
                IsRequest(cur[s], i, "POST", SessionPath)
                    => cur[s].requests[i].auth = auth_basic

\* login() started under auth_cookie and its POST went out under auth_basic
C4_Witness ==
    \E s \in Sessions :
        /\ Finished(s, "login")
        /\ cur[s].t = auth_cookie
        /\ IsRequest(cur[s], 1, "POST", SessionPath)
        /\ cur[s].requests[1].auth = auth_basic

\* C5: the requests of one login() call depend on the starting auth type
\* only.  auth_none: no request, and the auth type is not set.  auth_cookie:
\* exactly the POST /_session, no DELETE.  auth_basic: the POST /_session,
\* followed, only if the POST succeeded, by exactly one DELETE /_session
\* issued under auth_cookie.
C5_LoginRequests ==
    \A s \in Sessions :
        LET c == cur[s]
            n == Len(c.requests)
        IN c.op = "login" =>
            /\ pc[s] \in {"idle", "login_logout"}
            /\ c.t = auth_none => (n = 0 /\ c.sets = 0 /\ pc[s] = "idle")
            /\ c.t = auth_cookie =>
                   (n = 1 /\ IsRequest(c, 1, "POST", SessionPath) /\ pc[s] = "idle")
            /\ c.t = auth_basic =>
                   /\ IsRequest(c, 1, "POST", SessionPath)
                   /\ c.requests[1].reply.thrown => (n = 1 /\ pc[s] = "idle")
                   /\ (~c.requests[1].reply.thrown /\ pc[s] = "login_logout") => n = 1
                   /\ (~c.requests[1].reply.thrown /\ pc[s] = "idle") =>
                          /\ n = 2
                          /\ IsRequest(c, 2, "DELETE", SessionPath)
                          /\ c.requests[2].auth = auth_cookie

\* login() under auth_cookie has returned after a successful POST and
\* nothing else
C5_Witness ==
    \E s \in Sessions :
        /\ Finished(s, "login") /\ cur[s].outcome = Self
        /\ cur[s].t = auth_cookie
        /\ Methods(cur[s]) = <<"POST">>
        /\ ~cur[s].requests[1].reply.thrown

\* C6: logout() issues DELETE /_session and get_login_info() issues
\* GET /_session if and only if the auth type is auth_cookie; under
\* auth_none and auth_basic neither issues a request and get_login_info()
\* returns null, not an error; neither changes the auth type.
C6_SessionOnlyUnderCookie ==
    \A s \in Sessions :
        LET c == cur[s]
            method == IF c.op = "logout" THEN "DELETE" ELSE "GET"
        IN (pc[s] = "idle" /\ c.op \in {"logout", "get_login_info"}) =>
            /\ c.t = auth_cookie =>
                   (Len(c.requests) = 1 /\ IsRequest(c, 1, method, SessionPath))
            /\ c.t # auth_cookie =>
                   /\ c.requests = <<>>
                   /\ c.outcome = IF c.op = "logout" THEN Self ELSE Null
            /\ authType[s] = c.t
            /\ c.sets = 0

C6_Witness ==
    \E s \in Sessions :
        /\ Finished(s, "get_login_info")
        /\ cur[s].t = auth_basic
        /\ cur[s].requests = <<>>
        /\ cur[s].outcome = Null
        /\ authType[s] = auth_basic

\* C7: two ensure_db_exists(name) calls made in sequence by one session, with
\* every HEAD and PUT answered faithfully, both return a Database Reference,
\* the server then holds exactly one database of that name, and the second
\* call issues no PUT.  Every finished faithful call is checked as it
\* finishes (the first as well as the second); prev tells that the call
\* before it was a faithful ensure_db_exists of the same name.
C7_EnsureTwice ==
    \A s \in Sessions :
        LET c == cur[s]
        IN (Finished(s, "ensure_db_exists") /\ Faithful(c)) =>
            /\ c.outcome = Database(c.db)
            /\ Cardinality({d \in server_dbs : d = c.db}) = 1
            /\ prev[s] = c.db => Methods(c) = <<"HEAD">>

\* the second of two faithful ensure_db_exists calls for one name has
\* returned
C7_Witness ==
    \E s \in Sessions :
        /\ Finished(s, "ensure_db_exists") /\ Faithful(cur[s])
        /\ prev[s] = cur[s].db
        /\ cur[s].outcome = Database(cur[s].db)
        /\ cur[s].db \in server_dbs

\* C8: ensure_db_exists issues the PUT if and only if its HEAD failed with
\* content_not_found; a HEAD that fails with another kind reaches the caller
\* as that same error (kind and message) with no PUT issued; a HEAD that
\* succeeds is followed by no PUT.
C8_EnsurePutOnlyOnNotFound ==
    \A s \in Sessions :
        LET c == cur[s]
            head == c.requests[1].reply
            notFound == head.thrown /\ head.err.type = content_not_found
        IN c.op = "ensure_db_exists" =>
            /\ IsRequest(c, 1, "HEAD", DbPath(c.db))
            /\ pc[s] = "ensure_db_exists_create" => (notFound /\ Len(c.requests) = 1)
            /\ pc[s] = "idle" =>
                   /\ notFound <=> Methods(c) = <<"HEAD", "PUT">>
                   /\ ~notFound <=> Methods(c) = <<"HEAD">>
                   /\ (head.thrown /\ ~notFound) => c.outcome = Throw(head.err)
                   /\ ~head.thrown => c.outcome = Database(c.db)

\* the HEAD of ensure_db_exists raised communication_error with a message:
\* the caller got that error and no PUT went out
C8_Witness ==
    \E s \in Sessions :
        /\ Finished(s, "ensure_db_exists")
        /\ Methods(cur[s]) = <<"HEAD">>
        /\ cur[s].requests[1].reply = Thrown(error(communication_error, "the reason"))
        /\ cur[s].outcome = Throw(error(communication_error, "the reason"))

\* C9: ensure_db_is_deleted returns normally whenever remove_db succeeds or
\* fails with content_not_found or database_not_deletable, so it never fails
\* for a database that is not there; an error of another kind from remove_db
\* reaches the caller unchanged; exactly one DELETE is issued.
C9_EnsureDeletedTolerates ==
    \A s \in Sessions :
        LET c == cur[s]
            removed == remove_db_result(c.requests[1].reply)
            tolerated == \/ removed.kind # "error"
                         \/ removed.err.type \in {content_not_found,
                                                  database_not_deletable}
        IN Finished(s, "ensure_db_is_deleted") =>
            /\ Len(c.requests) = 1
            /\ IsRequest(c, 1, "DELETE", DbPath(c.db))
            /\ tolerated => c.outcome = Self
            /\ ~tolerated => c.outcome = removed
            /\ c.requests[1].faithful => c.outcome = Self

\* ensure_db_is_deleted of a database that is not there returned normally:
\* the server said not_found in an object
C9_Witness ==
    \E s \in Sessions :
        /\ Finished(s, "ensure_db_is_deleted")
        /\ cur[s].requests[1].faithful
        /\ NotFound(cur[s].requests[1].reply.val)
        /\ cur[s].db \notin server_dbs
        /\ cur[s].outcome = Self

\* what the claim says create_db (kind database_not_creatable, success ok)
\* or remove_db (kind database_not_deletable, success ok) gives for object v
ObjectContract(v, kind, ok) ==
    IF "error" \in DOMAIN v.members
    THEN Throw(error(kind, IF "reason" \in DOMAIN v.members
                           THEN v.members["reason"].s ELSE ""))
    ELSE IF "ok" \notin DOMAIN v.members \/ v.members["ok"] # JBool(TRUE)
    THEN Throw(error(kind, ""))
    ELSE ok

\* C10: for an object response, create_db (remove_db) fails with
\* database_not_creatable (database_not_deletable) carrying the reason when
\* the object has an error member, even when ok is true; else it fails with
\* that kind and no message when ok is not true; else it succeeds, create_db
\* returning the Database Reference of that name.
C10_ObjectResponse ==
    \A s \in Sessions :
        LET c == cur[s]
            v == c.requests[1].reply.val
        IN /\ (Finished(s, "create_db") /\ is_object(v)) =>
                  c.outcome = ObjectContract(v, database_not_creatable, Database(c.db))
           /\ (Finished(s, "remove_db") /\ is_object(v)) =>
                  c.outcome = ObjectContract(v, database_not_deletable, Self)

\* create_db got an object with an error member, a reason and ok true, and
\* failed with database_not_creatable carrying the reason
C10_Witness ==
    \E s \in Sessions :
        /\ Finished(s, "create_db")
        /\ cur[s].requests[1].reply.val =
               JObject(JString("file_exists"), JString("the reason"), JBool(TRUE))
        /\ cur[s].outcome = Throw(error(database_not_creatable, "the reason"))

\* C11: when the response to the PUT of create_db is not a JSON object,
\* create_db fails with bad_response.
C11_NonObjectIsBadResponse ==
    \A s \in Sessions :
        LET reply == cur[s].requests[1].reply
        IN (Finished(s, "create_db") /\ ~reply.thrown /\ ~is_object(reply.val))
            => cur[s].outcome = Throw(error(bad_response, ""))

\* the HEAD came back with a success status
Succeeded(reply) ==
    /\ ~reply.thrown
    /\ "status" \in DOMAIN reply => reply.status = 200

\* C12: get_db returns a Database Reference only when its HEAD had a success
\* status, and fails for every other status, over a transport that raises
\* on a non-success status as well as over one that reports the status.
C12_ReferenceOnlyOnSuccess ==
    \A s \in Sessions :
        LET reply == cur[s].requests[1].reply
        IN Finished(s, "get_db") =>
            /\ cur[s].outcome.kind = "database" => Succeeded(reply)
            /\ ~Succeeded(reply) => cur[s].outcome.kind = "error"

\* str begins with prefix
StartsWith(str, prefix) ==
    Len(prefix) <= Len(str) /\ SubSeq(str, 1, Len(prefix)) = prefix

\* the names of the array a call of session s was answered with
ServerNames(s) == item_strings(cur[s].requests[1].reply.val)
AnsweredWithArray(s) ==
    LET reply == cur[s].requests[1].reply
    IN ~reply.thrown /\ is_array(reply.val)
AnsweredWithOther(s) ==
    LET reply == cur[s].requests[1].reply
    IN ~reply.thrown /\ ~is_array(reply.val)
Listable(name) ==
    ~StartsWith(name, Underscore) /\ ~StartsWith(name, ShardsPrefix)

\* C13: list_db_names returns, in server order, exactly the names of the
\* server's array that start neither with '_' nor with "shards/", and
\* list_all_db_names returns every name in server order; a response that is
\* no array makes both fail with database_unavailable.
C13_ListFilters ==
    \A s \in Sessions :
        /\ (Finished(s, "list_db_names") /\ AnsweredWithArray(s)) =>
               /\ cur[s].outcome = Value
               /\ cur[s].ret = SelectSeq(ServerNames(s), Listable)
        /\ (Finished(s, "list_all_db_names") /\ AnsweredWithArray(s)) =>
               /\ cur[s].outcome = Value
               /\ cur[s].ret = ServerNames(s)
        /\ ((Finished(s, "list_db_names") \/ Finished(s, "list_all_db_names"))
                /\ AnsweredWithOther(s)) =>
               cur[s].outcome = Throw(error(database_unavailable, ""))

\* list_db_names answered with ["_replicator", "shards/x", "alpha", "beta"]
\* has returned ["alpha", "beta"]
C13_Witness ==
    \E s \in Sessions :
        /\ Finished(s, "list_db_names")
        /\ AnsweredWithArray(s)
        /\ ServerNames(s) = ExampleList
        /\ cur[s].ret = <<ExampleList[3], ExampleList[4]>>

\* the ids of the rows a call of session s was answered with
AnsweredWithRows(s) ==
    LET reply == cur[s].requests[1].reply
    IN ~reply.thrown /\ is_object(reply.val)
           /\ is_array(member(reply.val, "rows"))
RowIds(s) ==
    LET rows == member(cur[s].requests[1].reply.val, "rows").items
    IN [i \in 1..Len(rows) |-> get_text(member(rows[i], "id"))]
Stripped(id) ==
    IF StartsWith(id, UserPrefix)
    THEN SubSeq(id, Len(UserPrefix) + 1, Len(id)) ELSE id
NamesARow(id) == ~StartsWith(id, Underscore) /\ Stripped(id) # <<>>

\* C16: list_user_names returns, in row order, one name for every row whose
\* id does not start with '_' (tested on the id as the server gave it) and
\* whose name, the id without a leading "org.couchdb.user:", is not empty;
\* a response that is no object or whose rows is no array fails with
\* bad_response.
C16_UserNames ==
    \A s \in Sessions :
        Finished(s, "list_user_names") =>
            LET reply == cur[s].requests[1].reply
            IN /\ AnsweredWithRows(s) =>
                   LET named == SelectSeq(RowIds(s), NamesARow)
                   IN /\ cur[s].outcome = Value
                      /\ cur[s].ret =
                             [i \in 1..Len(named) |-> Stripped(named[i])]
               /\ (~reply.thrown /\ ~AnsweredWithRows(s)) =>
                   cur[s].outcome = Throw(error(bad_response, ""))

\* rows with the ids org.couchdb.user:alice and _design/x have given the one
\* name alice
C16_Witness ==
    \E s \in Sessions :
        /\ Finished(s, "list_user_names")
        /\ AnsweredWithRows(s)
        /\ RowIds(s) = ExampleIds
        /\ cur[s].ret = <<<<"a", "l", "i", "c", "e">>>>

\* the version string of the object a call of session s was answered with
AnsweredWithObject(s) ==
    LET reply == cur[s].requests[1].reply
    IN ~reply.thrown /\ is_object(reply.val)
ServerVersion(s) ==
    get_text(member(cur[s].requests[1].reply.val, "version"))
\* the text of a version before its first '.'
MajorText(version) ==
    IF \E i \in 1..Len(version) : version[i] = "."
    THEN LET dot == CHOOSE i \in 1..Len(version) :
                        /\ version[i] = "."
                        /\ \A j \in 1..(i - 1) : version[j] # "."
         IN SubSeq(version, 1, dot - 1)
    ELSE version
Unsigned(text) ==
    IF text # <<>> /\ text[1] \in {"+", "-"} THEN Tail(text) ELSE text
IsDigit(c) == c \in {"0", "1", "2", "3", "4", "5", "6", "7", "8", "9"}
HasLeadingInt(text) == Unsigned(text) # <<>> /\ IsDigit(Unsigned(text)[1])
\* how many digits the text begins with, after its sign
DigitRun(text) ==
    LET u == Unsigned(text)
    IN CHOOSE k \in 0..Len(u) :
           /\ \A i \in 1..k : IsDigit(u[i])
           /\ k < Len(u) => ~IsDigit(u[k + 1])
\* the integer the text begins with
LeadingInt(text) ==
    LET u == Unsigned(text)
        k == DigitRun(text)
        Pow10[n \in 0..k] == IF n = 0 THEN 1 ELSE 10 * Pow10[n - 1]
        Sum[n \in 0..k] ==
            IF n = 0 THEN 0 ELSE Sum[n - 1] + DigitOf[u[n]] * Pow10[k - n]
    IN IF text # <<>> /\ text[1] = "-" THEN 0 - Sum[k] ELSE Sum[k]
\* the major version a version string stands for
MajorOf(version) ==
    IF HasLeadingInt(MajorText(version)) THEN LeadingInt(MajorText(version))
    ELSE 0 - 1

\* C14: answered with an object, get_major_version returns the integer the
\* text before the first '.' of the version begins with, and -1, without
\* raising, when that text begins with no integer: 2 for "2.3.1", -1 for
\* "vNext" and for the empty string.
C14_MajorVersion ==
    \A s \in Sessions :
        (Finished(s, "get_major_version") /\ AnsweredWithObject(s)) =>
            /\ cur[s].outcome = Value
            /\ cur[s].ret = MajorOf(ServerVersion(s))
            /\ ServerVersion(s) = <<"2", ".", "3", ".", "1">> => cur[s].ret = 2
            /\ ServerVersion(s) \in {<<"v", "N", "e", "x", "t">>, <<>>} => cur[s].ret = 0 - 1

\* get_major_version has returned -1 for "vNext"
C14_Witness ==
    \E s \in Sessions :
        /\ Finished(s, "get_major_version")
        /\ AnsweredWithObject(s)
        /\ ServerVersion(s) = <<"v", "N", "e", "x", "t">>
        /\ cur[s].ret = 0 - 1

UpTo(first, second) == {<<>>, <<first>>, <<first, second>>}

\* C17: every call issues at most one transport request, and nothing follows
\* a request that failed, except that ensure_db_exists issues at most one
\* HEAD and then at most one PUT and login at most one POST and then at most
\* one DELETE; a call that is between two requests has its first request
\* answered.
C17_NoRepeatedRequest ==
    \A s \in Sessions :
        LET c == cur[s]
        IN /\ c.op = "ensure_db_exists" => Methods(c) \in UpTo("HEAD", "PUT")
           /\ c.op = "login" =>
                  /\ Methods(c) \in UpTo("POST", "DELETE")
                  /\ Len(c.requests) = 2 => ~c.requests[1].reply.thrown
           /\ c.op \notin {"ensure_db_exists", "login"} =>
                  /\ Len(c.requests) <= 1
                  /\ pc[s] = "idle"
           /\ pc[s] # "idle" =>
                  /\ Len(c.requests) = 1
                  /\ c.outcome = Pending

\* a call of upgrade_to_node_connection has ended with its one request
\* failed
C17_Witness ==
    \E s \in Sessions :
        /\ Finished(s, "upgrade_to_node_connection")
        /\ Len(cur[s].requests) = 1
        /\ cur[s].requests[1].reply.thrown
        /\ cur[s].outcome.kind = "error"

InfoOps == {"get_couchdb_version", "get_major_version",
            "get_supports_clusters", "upgrade_to_cluster_connection",
            "upgrade_to_node_connection"}
\* the pair the version cache of session s holds
Cached(s) == <<couchDBVersion[s], couchdb_major[s]>>
\* a call that fetched the server info has ended for session s
Fetched(s) == pc[s] = "idle" /\ cur[s].op \in InfoOps
\* the call c was answered with an object, and the version in it
ObjectFetched(c) ==
    ~c.requests[1].reply.thrown /\ is_object(c.requests[1].reply.val)
VersionFetched(c) == get_text(member(c.requests[1].reply.val, "version"))
\* what the call answers from the version the server gave
AnswerOf(op, version) ==
    CASE op = "get_couchdb_version" -> version
      [] op = "get_major_version" -> MajorOf(version)
      [] op = "get_supports_clusters" -> MajorOf(version) >= 2

\* a step changes the cache of a session only by ending a call of that
\* session that fetched an object, and then writes both fields from it; a
\* call whose fetch failed leaves the cache as it was
CacheWrittenByFetch ==
    \A s \in Sessions :
        /\ <<couchDBVersion'[s], couchdb_major'[s]>> # Cached(s) =>
               /\ cur'[s] # cur[s]
               /\ pc'[s] = "idle"
               /\ cur'[s].op \in InfoOps
               /\ ObjectFetched(cur'[s])
               /\ couchDBVersion'[s] = VersionFetched(cur'[s])
               /\ couchdb_major'[s] = MajorOf(VersionFetched(cur'[s]))
        /\ (/\ cur'[s] # cur[s]
            /\ pc'[s] = "idle"
            /\ cur'[s].op \in InfoOps
            /\ ~ObjectFetched(cur'[s])) =>
               <<couchDBVersion'[s], couchdb_major'[s]>> = Cached(s)
\* after a call that fetched an object the cache holds its version and the
\* major version parsed from it, until the next fetch; every call of the
\* three accessors issues one GET of the root and answers from its response
CacheIsLastFetch ==
    \A s \in Sessions :
        Fetched(s) =>
            /\ Len(cur[s].requests) = 1
            /\ IsRequest(cur[s], 1, "GET", "")
            /\ AnsweredWithObject(s) =>
                   /\ Cached(s) = <<ServerVersion(s), MajorOf(ServerVersion(s))>>
                   /\ cur[s].op \in {"get_couchdb_version", "get_major_version",
                                      "get_supports_clusters"} =>
                          /\ cur[s].outcome = Value
                          /\ cur[s].ret = AnswerOf(cur[s].op, ServerVersion(s))

\* C18: the version cache is written only by the server info fetch and both
\* fields together: it holds the version and the parsed major version of the
\* latest fetch that succeeded, a fetch that fails leaves it unchanged and no
\* other operation changes it; get_major_version, get_couchdb_version and
\* get_supports_clusters each issue a fresh root GET and answer from it.
C18_VersionCache == [][CacheWrittenByFetch]_vars /\ []CacheIsLastFetch

\* a fetch has failed and the cache still holds what the fetch of "2.3.1"
\* wrote
C18_Witness ==
    \E s \in Sessions :
        /\ Finished(s, "get_couchdb_version")
        /\ cur[s].requests[1].reply.thrown
        /\ Cached(s) = <<<<"2", ".", "3", ".", "1">>, 2>>

\* session s has ended a call of ensure_db_exists(db) that found db absent
EnsuredAbsent(s, db) ==
    /\ Finished(s, "ensure_db_exists")
    /\ cur[s].db = db
    /\ cur[s].requests[1].reply.thrown
    /\ cur[s].requests[1].reply.err.type = content_not_found

\* C19: when two sessions call ensure_db_exists for the same name at the same
\* time on a working server that does not hold the database, both calls
\* return a database reference however their HEAD and PUT requests
\* interleave, and the server then holds the database.
C19_ConcurrentEnsure ==
    \A db \in DbNames :
        (\A s \in Sessions : EnsuredAbsent(s, db)) =>
            /\ \A s \in Sessions : cur[s].outcome = Database(db)
            /\ db \in server_dbs

====
